---------------------------- MODULE Spec2Model ----------------------------
(***************************************************************************)
(* Model of the AL3050 single-wire backlight driver (src/al3050.c).        *)
(*                                                                         *)
(* The driver is modelled at the granularity of its GPIO line events: one  *)
(* step per gpiod_direction_output()/gpiod_direction_input() call with the *)
(* delay that follows it, and one step per gpiod_get_value() poll.  The    *)
(* backlight core serialises probe and update_status, so a handler that    *)
(* has started is the only thing that can take a step until it returns.    *)
(***************************************************************************)
EXTENDS Integers, Sequences, FiniteSets, TLC

(***************************************************************************)
(* Program constants (src/al3050.c:29-42) and the kernel constants the     *)
(* driver tests against.                                                   *)
(***************************************************************************)
ADDRESS_AL3050 == 22528
T_DELAY_NS == 100000
T_DETECTION_NS == 450000
T_START_NS == 4000
T_EOS_NS == 4000
T_RESET_MS == 4
T_LOGIC_1_NS == 4000
T_LOGIC_0_NS == 9000
BRIGHTNESS_MAX == 31
BRIGHTNESS_BMASK == 31
RFA_BMASK == 128
RFA_ACK_WAIT == 3500
RFA_MAX_ACK_TIME == 900000
FB_BLANK_UNBLANK == 0
BL_CORE_SUSPENDED == 1
BL_CORE_FBBLANK == 2
NS_PER_MS == 1000000

\* Largest value the "rfa_en" word can take in the model: the device-tree
\* property when present, or whatever the uninitialised stack word holds.
MaxRfaValue == 1

RfaValues == 0..MaxRfaValue

\* Largest bl->props.power the backlight core passes (FB_BLANK_POWERDOWN).
MaxPower == 4

\* Highest bit set in a brightness that an in-kernel caller writes to
\* bl->props.brightness without going through the core's range check.
MaxRawBit == 8

(***************************************************************************)
(* C integer operators, computed bit by bit.                               *)
(***************************************************************************)
RECURSIVE BitAnd(_, _)
BitAnd(x, y) ==
    IF x = 0 \/ y = 0 THEN 0
    ELSE (IF x % 2 = 1 /\ y % 2 = 1 THEN 1 ELSE 0) + 2 * BitAnd(x \div 2, y \div 2)

RECURSIVE BitOr(_, _)
BitOr(x, y) ==
    IF x = 0 THEN y
    ELSE IF y = 0 THEN x
    ELSE (IF x % 2 = 1 \/ y % 2 = 1 THEN 1 ELSE 0) + 2 * BitOr(x \div 2, y \div 2)

ShiftRight(x, n) == x \div (2 ^ n)

ShiftLeft(x, n) == x * (2 ^ n)

\* T_LOGIC_NS is an unparenthesised macro: "T_LOGIC_NS - t_low" expands to
\* T_LOGIC_1_NS + T_LOGIC_0_NS - t_low.
T_LOGIC_NS_minus(t_low) == T_LOGIC_1_NS + T_LOGIC_0_NS - t_low

VARIABLES
    pc,               \* position of the running handler ("unbound", "idle", ...)
    brightness,       \* bl->props.brightness
    props_power,      \* bl->props.power
    props_state,      \* bl->props.state (BL_CORE_SUSPENDED | BL_CORE_FBBLANK bits)
    max_brightness,   \* bl->props.max_brightness
    last_brightness,  \* pchip->last_brightness
    power,            \* pchip->power
    rfa_en,           \* pchip->rfa_en
    rfa_present,      \* whether the device tree holds the "rfa_en" property
    gpio_dir,         \* direction of the line: "asis", "out" or "in"
    gpio_val,         \* level last driven on the line
    irq_on,           \* whether local interrupts are enabled
    flags_sv,         \* flags saved by al3050_backlight_set_value (TRUE out of scope)
    flags_init,       \* flags saved by al3050_init (TRUE out of scope)
    data,             \* al3050_backlight_set_value: data
    max_bmask,        \* al3050_backlight_set_value: max_bmask
    max_ack_time,     \* al3050_backlight_set_value: max_ack_time
    initCaller,       \* who called al3050_init: "probe", "update" or "setvalue"
    usPath,           \* branch of update_status in progress: "blank", "unblank", "active"
    retval,           \* value update_status is about to return
    call,             \* history: the handler in progress ("none", "probe", "apply")
    entry,            \* history: device state and request at the entry of the call
    req,              \* history: the requested brightness, while bl->props.brightness
                      \*          still holds it (NoValue once the driver overwrote it)
    nInit,            \* history: al3050_init runs completed in this call
    initsAtFrame,     \* history: nInit when the frame's first pulse was driven (-1: none)
    nFrames,          \* history: frames started in this call
    nPulses,          \* history: frame line events driven in this call
    nReads,           \* history: gpiod_get_value polls made so far in the ack
                      \*          window in progress (0 outside the window)
    nInputs,          \* history: gpiod_direction_input calls in this call
    ack,              \* history: the ack poll of this call: "none", "seen" (a low
                      \*          level was read) or "missed" (the window elapsed)
    sent,             \* history: brightness field of the last frame put on the
                      \*          line since attach (NoValue: none yet)
    fresh,            \* history: no update_status has run since the device
                      \*          was registered
    probe_pending,    \* the probe thread registered the device (line 255) and
                      \*          has not yet called al3050_init (line 271)
    wire              \* history: line events of this call, <<level, hold ns>>

vars == <<pc, brightness, props_power, props_state, max_brightness,
          last_brightness, power, rfa_en, rfa_present, gpio_dir, gpio_val,
          irq_on, flags_sv, flags_init, data, max_bmask, max_ack_time,
          initCaller, usPath, retval, call, entry, req, nInit,
          initsAtFrame, nFrames, nPulses, nReads, nInputs, ack, sent, fresh,
          probe_pending, wire>>

dev == <<brightness, props_power, props_state, max_brightness,
         last_brightness, power, rfa_en, rfa_present, probe_pending>>
line == <<gpio_dir, gpio_val>>
irq == <<irq_on, flags_sv, flags_init>>
locals == <<data, max_bmask, max_ack_time>>
hist == <<call, entry, req, nInit, initsAtFrame, nFrames, nPulses, nReads,
          nInputs, ack, sent, fresh, wire>>

NoValue == 0 - 1

NoEntry == [power |-> 0, last |-> 0, sent |-> NoValue, same |-> FALSE, first |-> FALSE]

\* gpiod_direction_output(pchip->gpiod, v) followed by a delay of ns
Drive(v, ns) ==
    /\ gpio_dir' = "out"
    /\ gpio_val' = v
    /\ wire' = Append(wire, <<IF v = 0 THEN "low" ELSE "high", ns>>)

(***************************************************************************)
(* Before attach: no device state, the line is as the bootloader left it   *)
(* (GPIOD_ASIS).                                                           *)
(***************************************************************************)
Init ==
    /\ pc = "unbound"
    /\ brightness = 0
    /\ props_power = 0
    /\ props_state = 0
    /\ max_brightness = 0
    /\ last_brightness = 0
    /\ power = 0
    /\ rfa_en = 0
    /\ rfa_present \in BOOLEAN
    /\ gpio_dir = "asis"
    /\ gpio_val \in {0, 1}
    /\ irq_on = TRUE
    /\ flags_sv = TRUE
    /\ flags_init = TRUE
    /\ data = 0
    /\ max_bmask = 0
    /\ max_ack_time = 0
    /\ initCaller = "none"
    /\ usPath = "none"
    /\ retval = 0
    /\ call = "none"
    /\ entry = NoEntry
    /\ req = NoValue
    /\ nInit = 0
    /\ initsAtFrame = -1
    /\ nFrames = 0
    /\ nPulses = 0
    /\ nReads = 0
    /\ nInputs = 0
    /\ ack = "none"
    /\ sent = NoValue
    /\ fresh = FALSE
    /\ probe_pending = FALSE
    /\ wire = <<>>


(***************************************************************************)
(* al3050_backlight_probe                                                  *)
(***************************************************************************)
\* Lines 244-247: of_property_read_u32 fills "value" only when the property
\* exists; the assignment of line 247 is unconditional, so without the
\* property rfa_en receives the uninitialised word (garbage).
ProbeRfa(present, dt, garbage) == IF present THEN dt ELSE garbage

\* Line 254 marking the new device blanked (the value line 166 stores)
ProbePowerBlanked == FB_BLANK_UNBLANK + 1

\* Line 254: pchip->power = 0
ProbePower == 0

Probe ==
    /\ pc = "unbound"
    /\ \E dt \in RfaValues, garbage \in RfaValues :
          rfa_en' = ProbeRfa(rfa_present, dt, garbage)
    /\ last_brightness' = 0
    /\ brightness' = BRIGHTNESS_MAX
    /\ max_brightness' = BRIGHTNESS_MAX
    /\ props_power' = 0
    /\ props_state' = 0
    /\ power' = ProbePower
    /\ fresh' = TRUE
    /\ call' = "probe"
    /\ initCaller' = "probe"
    /\ pc' = "init_lo"
    /\ UNCHANGED <<rfa_present, probe_pending, line, irq, locals, usPath, retval,
                   entry, req, nInit, initsAtFrame, nFrames, nPulses, nReads,
                   nInputs, ack, sent, wire>>

\* Lines 227-263 when the probe thread loses the processor after
\* devm_backlight_device_register (line 255): the device is visible to the
\* backlight core, which may call update_status, and al3050_init (line 271)
\* has not run.
ProbeRegister ==
    /\ pc = "unbound"
    /\ \E dt \in RfaValues, garbage \in RfaValues :
          rfa_en' = ProbeRfa(rfa_present, dt, garbage)
    /\ last_brightness' = 0
    /\ brightness' = BRIGHTNESS_MAX
    /\ max_brightness' = BRIGHTNESS_MAX
    /\ props_power' = 0
    /\ props_state' = 0
    /\ power' = ProbePower
    /\ fresh' = TRUE
    /\ probe_pending' = TRUE
    /\ pc' = "idle"
    /\ UNCHANGED <<rfa_present, line, irq, locals, initCaller, usPath, retval,
                   call, entry, req, nInit, initsAtFrame, nFrames, nPulses, nReads,
                   nInputs, ack, sent, wire>>

\* Line 271 reached late: the probe thread runs again, between two calls of
\* update_status, and calls al3050_init.
ProbeResume ==
    /\ pc = "idle"
    /\ probe_pending
    /\ probe_pending' = FALSE
    /\ call' = "probe"
    /\ initCaller' = "probe"
    /\ pc' = "init_lo"
    /\ UNCHANGED <<brightness, props_power, props_state, max_brightness,
                   last_brightness, power, rfa_en, rfa_present, line, irq, locals,
                   usPath, retval, entry, req, nInit, initsAtFrame, nFrames,
                   nPulses, nReads, nInputs, ack, sent, fresh, wire>>

\* Lines 229-230, 237-242, 258-259: allocation, GPIO lookup or registration
\* fails and probe returns the error; no device exists afterwards.
ProbeFail ==
    /\ pc = "unbound"
    /\ pc' = "failed"
    /\ UNCHANGED <<dev, line, irq, locals, initCaller, usPath, retval, hist>>

\* Lines 273-275: probe returns 0.
ProbeReturn ==
    /\ pc = "probe_ret"
    /\ pc' = "idle"
    /\ call' = "none"
    /\ initCaller' = "none"
    /\ nInit' = 0
    /\ wire' = <<>>
    /\ UNCHANGED <<dev, line, irq, locals, usPath, retval, entry, req, initsAtFrame,
                   nFrames, nPulses, nReads, nInputs, ack, sent, fresh>>

(***************************************************************************)
(* al3050_init: the reset/detect sequence                                  *)
(***************************************************************************)
InitLow ==
    /\ pc = "init_lo"
    /\ flags_init' = irq_on
    /\ irq_on' = FALSE
    /\ Drive(0, T_RESET_MS * NS_PER_MS)
    /\ pc' = "init_hi"
    /\ UNCHANGED <<dev, flags_sv, locals, initCaller, usPath, retval, call, entry, req,
                   nInit, initsAtFrame, nFrames, nPulses, nReads, nInputs,
                   ack, sent, fresh>>

InitDelay ==
    /\ pc = "init_hi"
    /\ Drive(1, T_DELAY_NS)
    /\ pc' = "init_det"
    /\ UNCHANGED <<dev, irq, locals, initCaller, usPath, retval, call, entry, req,
                   nInit, initsAtFrame, nFrames, nPulses, nReads, nInputs,
                   ack, sent, fresh>>

\* Lines 70-71 waiting T_DELAY_NS: the detection low is too short
InitDetectShort ==
    /\ pc = "init_det"
    /\ Drive(0, T_DELAY_NS)
    /\ pc' = "init_idle"
    /\ UNCHANGED <<dev, irq, locals, initCaller, usPath, retval, call, entry, req,
                   nInit, initsAtFrame, nFrames, nPulses, nReads, nInputs,
                   ack, sent, fresh>>

\* Lines 70-71: the detection window
InitDetect ==
    /\ pc = "init_det"
    /\ Drive(0, T_DETECTION_NS)
    /\ pc' = "init_idle"
    /\ UNCHANGED <<dev, irq, locals, initCaller, usPath, retval, call, entry, req,
                   nInit, initsAtFrame, nFrames, nPulses, nReads, nInputs,
                   ack, sent, fresh>>

\* Where al3050_init returns to: line 273 (probe), line 176 (update_status)
\* or line 146 (al3050_backlight_set_value).
InitReturn(caller) ==
    CASE caller = "probe" -> "probe_ret"
      [] caller = "update" -> "us_restore"
      [] caller = "setvalue" -> "sv_out"

\* Line 73 written local_irq_enable(): interrupts come back on whatever the
\* caller's state was
IrqRestoreEnable(flags) == TRUE

\* Lines 73 and 147: local_irq_restore(flags) puts back the saved state
IrqRestore(flags) == flags

\* Lines 72-74: the line idles high and al3050_init returns to its caller
InitIdle ==
    /\ pc = "init_idle"
    /\ Drive(1, 0)
    /\ irq_on' = IrqRestore(flags_init)
    /\ flags_init' = TRUE
    /\ nInit' = nInit + 1
    /\ pc' = InitReturn(initCaller)
    /\ UNCHANGED <<dev, flags_sv, locals, initCaller, usPath, retval,
                   call, entry, req, initsAtFrame, nFrames, nPulses, nReads, nInputs,
                   ack, sent, fresh>>


(***************************************************************************)
(* al3050_backlight_set_value: the protocol engine                         *)
(***************************************************************************)
\* Line 90 with a 4-bit mask: the top brightness bit is lost
FrameDataNarrowMask(b, rfa) ==
    LET d == BitOr(ADDRESS_AL3050, BitAnd(b, BRIGHTNESS_BMASK \div 2))
    IN  IF rfa # 0 THEN BitOr(d, RFA_BMASK) ELSE d

\* Lines 92-93 left out: the acknowledge request never reaches the frame
FrameDataNoAckBit(b, rfa) ==
    BitOr(ADDRESS_AL3050, BitAnd(b, BRIGHTNESS_BMASK))

\* Line 90 without the mask: a wide brightness spills into the flag and
\* address bits
FrameDataUnmasked(b, rfa) ==
    LET d == BitOr(ADDRESS_AL3050, b)
    IN  IF rfa # 0 THEN BitOr(d, RFA_BMASK) ELSE d

\* Lines 90-93: the 16-bit command
FrameData(b, rfa) ==
    LET d == BitOr(ADDRESS_AL3050, BitAnd(b, BRIGHTNESS_BMASK))
    IN  IF rfa # 0 THEN BitOr(d, RFA_BMASK) ELSE d

\* Line 87 shifting by 9: the boundary falls one bit late
addr_bmaskLate == ShiftRight(ShiftLeft(1, 16), 9)

\* Line 87: addr_bmask = max_bmask >> 8, with max_bmask = 0x1 << 16
addr_bmask == ShiftRight(ShiftLeft(1, 16), 8)

\* Lines 103-106 with the two durations exchanged
TLowInverted(d, mask) == IF BitAnd(d, mask) # 0 THEN T_LOGIC_0_NS ELSE T_LOGIC_1_NS

\* Lines 103-106: the low phase of the bit selected by mask
TLow(d, mask) == IF BitAnd(d, mask) # 0 THEN T_LOGIC_1_NS ELSE T_LOGIC_0_NS

\* Line 101: max_bmask >>= 1, then the loop test max_bmask > 0x0
NextBit ==
    /\ max_bmask' = ShiftRight(max_bmask, 1)
    /\ pc' = IF ShiftRight(max_bmask, 1) > 0 THEN "sv_bit_lo" ELSE "sv_eos"

\* Lines 85-93
SvBuild ==
    /\ pc = "sv_build"
    /\ max_bmask' = ShiftLeft(1, 16)
    /\ data' = FrameData(brightness, rfa_en)
    /\ pc' = "sv_start"
    /\ UNCHANGED <<dev, line, irq, max_ack_time, initCaller, usPath, retval, hist>>

\* Lines 97-99 and the loop initialisation of line 101
SvStart ==
    /\ pc = "sv_start"
    /\ flags_sv' = irq_on
    /\ irq_on' = FALSE
    /\ Drive(1, T_START_NS)
    /\ initsAtFrame' = nInit
    /\ nFrames' = nFrames + 1
    /\ nPulses' = nPulses + 1
    /\ NextBit
    /\ UNCHANGED <<dev, flags_init, data, max_ack_time, initCaller, usPath, retval,
                   call, entry, req, nInit, nReads, nInputs, ack, sent, fresh>>

\* Lines 102-109
SvBitLow ==
    /\ pc = "sv_bit_lo"
    /\ Drive(0, TLow(data, max_bmask))
    /\ nPulses' = nPulses + 1
    /\ pc' = "sv_bit_hi"
    /\ UNCHANGED <<dev, irq, locals, initCaller, usPath, retval, call, entry, req,
                   nInit, initsAtFrame, nFrames, nReads, nInputs, ack, sent, fresh>>

\* Lines 110-113, and the loop step when the bit is not the address boundary
SvBitHigh ==
    /\ pc = "sv_bit_hi"
    /\ Drive(1, T_LOGIC_NS_minus(TLow(data, max_bmask)))
    /\ nPulses' = nPulses + 1
    /\ IF max_bmask = addr_bmask
          THEN pc' = "sv_gap_lo" /\ UNCHANGED max_bmask
          ELSE NextBit
    /\ UNCHANGED <<dev, irq, data, max_ack_time, initCaller, usPath, retval, call,
                   entry, req, nInit, initsAtFrame, nFrames, nReads, nInputs, ack, sent,
                   fresh>>

\* Lines 114-116
SvGapLow ==
    /\ pc = "sv_gap_lo"
    /\ Drive(0, T_EOS_NS)
    /\ nPulses' = nPulses + 1
    /\ pc' = "sv_gap_hi"
    /\ UNCHANGED <<dev, irq, locals, initCaller, usPath, retval, call, entry, req,
                   nInit, initsAtFrame, nFrames, nReads, nInputs, ack, sent, fresh>>

\* Lines 117-119 and the loop step
SvGapHigh ==
    /\ pc = "sv_gap_hi"
    /\ Drive(1, T_START_NS)
    /\ nPulses' = nPulses + 1
    /\ NextBit
    /\ UNCHANGED <<dev, irq, data, max_ack_time, initCaller, usPath, retval, call,
                   entry, req, nInit, initsAtFrame, nFrames, nReads, nInputs, ack, sent,
                   fresh>>

\* Lines 124-130
SvEos ==
    /\ pc = "sv_eos"
    /\ Drive(0, T_EOS_NS)
    /\ nPulses' = nPulses + 1
    /\ sent' = BitAnd(data, BRIGHTNESS_BMASK)
    /\ pc' = IF rfa_en # 0 THEN "sv_input" ELSE "sv_out"
    /\ UNCHANGED <<dev, irq, locals, initCaller, usPath, retval, call, entry, req,
                   nInit, initsAtFrame, nFrames, nReads, nInputs, ack, fresh>>

\* Lines 131-132, and the first test of the loop condition of line 134
SvInput ==
    /\ pc = "sv_input"
    /\ max_ack_time' = RFA_MAX_ACK_TIME
    /\ gpio_dir' = "in"
    /\ wire' = Append(wire, <<"input", 0>>)
    /\ nInputs' = nInputs + 1
    /\ pc' = "sv_poll"
    /\ UNCHANGED <<dev, gpio_val, irq, data, max_bmask, initCaller, usPath, retval,
                   call, entry, req, nInit, initsAtFrame, nFrames, nPulses, nReads,
                   ack, sent, fresh>>

\* Line 137 subtracting the wrong duration (T_START_NS): the window is
\* consumed in smaller slices, so the input is read more often
AckNextShortSlice(t) == t - T_START_NS + 1000

\* Line 137: max_ack_time -= RFA_ACK_WAIT
AckNext(t) == t - RFA_ACK_WAIT

\* Line 139 written "== 0": the budget steps over zero and recovery never runs
AckExpiredExactly(t) == t = 0

\* Line 139 comparing with one poll slice: a low read in the last, shorter
\* slice is taken for a timeout
AckExpiredEarly(t) == t < RFA_ACK_WAIT

\* Line 139: the poll window ran out
AckExpired(t) == t <= 0

\* Lines 134-145: one gpiod_get_value; v is the level the chip (or the
\* pull-up) puts on the released line.  When the loop ends, line 139 decides
\* between al3050_init(bl) and ndelay(max_ack_time); max_ack_time then
\* leaves scope (line 145).
SvPoll ==
    /\ pc = "sv_poll"
    /\ \E v \in {0, 1} :
          LET t == IF v = 0 THEN max_ack_time ELSE AckNext(max_ack_time)
          IN  IF v # 0 /\ t > 0
                 THEN /\ max_ack_time' = t
                      /\ nReads' = nReads + 1
                      /\ pc' = "sv_poll"
                      /\ UNCHANGED <<ack, initCaller>>
                 ELSE /\ max_ack_time' = 0
                      /\ nReads' = 0
                      /\ ack' = IF v = 0 THEN "seen" ELSE "missed"
                      /\ IF AckExpired(t)
                            THEN /\ initCaller' = "setvalue"
                                 /\ pc' = "init_lo"
                            ELSE /\ pc' = "sv_out"
                                 /\ UNCHANGED initCaller
    /\ UNCHANGED <<dev, line, irq, data, max_bmask, usPath, retval, call, entry,
                   req, nInit, initsAtFrame, nFrames, nPulses, nInputs, sent,
                   fresh, wire>>

\* Line 151 reporting the missing acknowledge to the caller (-ETIMEDOUT)
SetValueResultTimeout(timeout) == IF timeout THEN 0 - 110 ELSE 0

\* Line 151: al3050_backlight_set_value returns 0 whatever the poll found
SetValueResult(timeout) == 0

\* Lines 179 and 183: what update_status returns after set_value returned r
UpdateResult(path, r) == IF path = "unblank" THEN 0 ELSE r

\* Line 149: the value remembered as last_brightness
Remembered(b) == b

\* Lines 146-151, then the return of update_status (line 179 or 183)
SvOut ==
    /\ pc = "sv_out"
    /\ Drive(1, 0)
    /\ irq_on' = IrqRestore(flags_sv)
    /\ flags_sv' = TRUE
    /\ last_brightness' = Remembered(brightness)
    /\ retval' = UpdateResult(usPath, SetValueResult(ack = "missed"))
    /\ pc' = "ret"
    /\ UNCHANGED <<brightness, props_power, props_state, max_brightness, power,
                   rfa_en, rfa_present, probe_pending, flags_init, locals, initCaller,
                   usPath, call, entry, req, nInit, initsAtFrame, nFrames, nPulses,
                   nReads, nInputs, ack, sent, fresh>>

(***************************************************************************)
(* al3050_backlight_update_status: the power state machine                 *)
(***************************************************************************)
PowerValues == FB_BLANK_UNBLANK..MaxPower
StateValues == 0..BitOr(BL_CORE_SUSPENDED, BL_CORE_FBBLANK)
BrightnessValues == 0..BRIGHTNESS_MAX

\* Lines 160-161 without the state flags: a suspended device is not blanked
ShouldBlankPowerOnly(p, s) == p # FB_BLANK_UNBLANK

\* Lines 160-161
ShouldBlank(p, s) ==
    p # FB_BLANK_UNBLANK \/ BitAnd(s, BitOr(BL_CORE_SUSPENDED, BL_CORE_FBBLANK)) # 0

\* Line 166: the value of pchip->power that marks the device blanked
BlankedPower == 1

\* Line 172 comparing against FB_BLANK_UNBLANK: a blanked device is not seen
IsBlankedWrongConstant(p) == p = FB_BLANK_UNBLANK

\* Line 172 with the test dropped: every power-on request re-initialises
IsBlankedAlways(p) == TRUE

\* Line 172
IsBlanked(p) == p = 1

\* Line 177 omitted: the requested brightness is sent after a blank period
RestoredRequested(last, requested) == requested

\* Line 177: the brightness transmitted when the device leaves the blanked state
Restored(last, requested) == last

\* The backlight core stores the request in bl->props and calls update_status.
Request(p, s, b) ==
    /\ props_power' = p
    /\ props_state' = s
    /\ call' = "apply"
    /\ entry' = [power |-> power, last |-> last_brightness, sent |-> sent,
                 same |-> (b = last_brightness), first |-> fresh]
    /\ fresh' = FALSE

\* Lines 160-168
UsBlank(p, s, b) ==
    /\ Request(p, s, b)
    /\ ShouldBlank(p, s)
    /\ Drive(0, 0)
    /\ brightness' = 0
    /\ req' = NoValue
    /\ power' = BlankedPower
    /\ retval' = 0
    /\ usPath' = "blank"
    /\ pc' = "ret"
    /\ UNCHANGED <<max_brightness, last_brightness, rfa_en, rfa_present, probe_pending, irq,
                   locals, initCaller, nInit, initsAtFrame, nFrames, nPulses,
                   nReads, nInputs, ack, sent>>

\* Lines 172-175: blanked, so al3050_init runs first
UsUnblank(p, s, b) ==
    /\ Request(p, s, b)
    /\ ~ShouldBlank(p, s)
    /\ IsBlanked(power)
    /\ brightness' = b
    /\ req' = b
    /\ usPath' = "unblank"
    /\ initCaller' = "update"
    /\ pc' = "init_lo"
    /\ UNCHANGED <<max_brightness, last_brightness, power, rfa_en, rfa_present, probe_pending,
                   line, irq, locals, retval, nInit, initsAtFrame, nFrames,
                   nPulses, nReads, nInputs, ack, sent, wire>>

\* Lines 176-178
UsRestore ==
    /\ pc = "us_restore"
    /\ power' = props_power
    /\ brightness' = Restored(last_brightness, brightness)
    /\ req' = NoValue
    /\ pc' = "sv_build"
    /\ UNCHANGED <<props_power, props_state, max_brightness, last_brightness,
                   rfa_en, rfa_present, probe_pending, line, irq, locals, initCaller, usPath,
                   retval, call, entry, nInit, initsAtFrame, nFrames, nPulses,
                   nReads, nInputs, ack, sent, fresh, wire>>

\* Lines 181-184
UsActive(p, s, b) ==
    /\ Request(p, s, b)
    /\ ~ShouldBlank(p, s)
    /\ ~IsBlanked(power)
    /\ brightness' = b
    /\ req' = b
    /\ usPath' = "active"
    /\ pc' = "sv_build"
    /\ UNCHANGED <<max_brightness, last_brightness, power, rfa_en, rfa_present, probe_pending,
                   line, irq, locals, initCaller, retval, nInit, initsAtFrame,
                   nFrames, nPulses, nReads, nInputs, ack, sent, wire>>

\* al3050_backlight_update_status, entered from the backlight core with the
\* request (power p, state flags s, brightness b) in bl->props.
UpdateStatus ==
    /\ pc = "idle"
    /\ \E p \in PowerValues, s \in StateValues, b \in BrightnessValues :
          \/ UsBlank(p, s, b)
          \/ UsUnblank(p, s, b)
          \/ UsActive(p, s, b)

\* bl->props.brightness is an int that the driver reads as it finds it
\* (lines 90 and 149): values in range, and values around each power of two
\* from bit 5 up, of either sign.
RawBrightnessValues ==
    {0, 21, BRIGHTNESS_MAX} \cup
    {sign * ShiftLeft(1, k) + j : sign \in {0 - 1, 1}, k \in 5..MaxRawBit,
                                 j \in {0 - 1, 0, 1}}

\* update_status called by a kernel client that sets bl->props.brightness
\* itself: no range check lies between the caller and line 155.
UpdateStatusRaw ==
    /\ pc = "idle"
    /\ \E p \in PowerValues, s \in StateValues, b \in RawBrightnessValues :
          \/ UsBlank(p, s, b)
          \/ UsUnblank(p, s, b)
          \/ UsActive(p, s, b)

\* update_status returns to the backlight core; its locals are gone.
Return ==
    /\ pc = "ret"
    /\ pc' = "idle"
    /\ data' = 0
    /\ max_bmask' = 0
    /\ max_ack_time' = 0
    /\ initCaller' = "none"
    /\ usPath' = "none"
    /\ retval' = 0
    /\ call' = "none"
    /\ entry' = NoEntry
    /\ req' = NoValue
    /\ nInit' = 0
    /\ initsAtFrame' = -1
    /\ nFrames' = 0
    /\ nPulses' = 0
    /\ nReads' = 0
    /\ nInputs' = 0
    /\ ack' = "none"
    /\ wire' = <<>>
    /\ UNCHANGED <<dev, line, irq, fresh, sent>>

Next ==
    \/ Probe
    \/ ProbeFail
    \/ ProbeReturn
    \/ InitLow
    \/ InitDelay
    \/ InitDetect
    \/ InitIdle
    \/ UpdateStatus
    \/ UsRestore
    \/ SvBuild
    \/ SvStart
    \/ SvBitLow
    \/ SvBitHigh
    \/ SvGapLow
    \/ SvGapHigh
    \/ SvEos
    \/ SvInput
    \/ SvPoll
    \/ SvOut
    \/ Return

Spec == Init /\ [][Next]_vars

\* The driver used by in-kernel callers that write bl->props.brightness
\* directly
NextRaw ==
    \/ Probe
    \/ ProbeFail
    \/ ProbeReturn
    \/ InitLow
    \/ InitDelay
    \/ InitDetect
    \/ InitIdle
    \/ UpdateStatusRaw
    \/ UsRestore
    \/ SvBuild
    \/ SvStart
    \/ SvBitLow
    \/ SvBitHigh
    \/ SvGapLow
    \/ SvGapHigh
    \/ SvEos
    \/ SvInput
    \/ SvPoll
    \/ SvOut
    \/ Return

SpecRaw == Init /\ [][NextRaw]_vars

\* The driver with the schedules in which update_status is called between
\* the registration of the device (line 255) and probe's al3050_init (line
\* 271).  The two threads take turns between handlers: a handler that holds
\* the line runs with local interrupts off.
NextRace ==
    \/ Probe
    \/ ProbeRegister
    \/ ProbeResume
    \/ ProbeFail
    \/ ProbeReturn
    \/ InitLow
    \/ InitDelay
    \/ InitDetect
    \/ InitIdle
    \/ UpdateStatus
    \/ UsRestore
    \/ SvBuild
    \/ SvStart
    \/ SvBitLow
    \/ SvBitHigh
    \/ SvGapLow
    \/ SvGapHigh
    \/ SvEos
    \/ SvInput
    \/ SvPoll
    \/ SvOut
    \/ Return

SpecRace == Init /\ [][NextRace]_vars


(***************************************************************************)
(* Properties                                                              *)
(***************************************************************************)
\* The request in bl->props asks for the backlight to be on: power on, and
\* neither BL_CORE_SUSPENDED nor BL_CORE_FBBLANK set.
PowerOnRequest ==
    /\ props_power = FB_BLANK_UNBLANK
    /\ props_state \notin {BL_CORE_SUSPENDED, BL_CORE_FBBLANK,
                           BL_CORE_SUSPENDED + BL_CORE_FBBLANK}

InApply == call = "apply"

AtReturn == InApply /\ pc = "ret"

InitRunning == pc \in {"init_lo", "init_hi", "init_det", "init_idle"}

\* The line events of one complete reset/detect sequence
ResetSequence ==
    << <<"low", T_RESET_MS * NS_PER_MS>>, <<"high", T_DELAY_NS>>,
       <<"low", T_DETECTION_NS>>, <<"high", 0>> >>

\* C1: an apply call with power on and no blank/suspend flag, made while the
\* device is Blanked (pchip->power = 1), runs the complete reset/detect
\* sequence before the first pulse of its command frame: when the frame starts
\* one al3050_init has completed, the first four line events of the call are
\* the reset sequence and the fifth is the frame's start preamble; and the
\* call does send its frame.
C1_ResetBeforeFrame ==
    (InApply /\ PowerOnRequest /\ entry.power = 1) =>
        /\ nFrames > 0 =>
              /\ initsAtFrame = 1
              /\ Len(wire) >= 5
              /\ SubSeq(wire, 1, 4) = ResetSequence
              /\ wire[5] = <<"high", T_START_NS>>
        /\ pc = "ret" => nFrames = 1

C1_Witness ==
    /\ AtReturn /\ PowerOnRequest /\ entry.power = 1
    /\ nFrames = 1 /\ initsAtFrame = 1
    /\ SubSeq(wire, 1, 4) = ResetSequence

\* C2 as stated: an apply call made while the device is Active never runs the
\* reset/detect sequence, whatever the chip does on the line.
C2_NeverResetWhenActive ==
    (InApply /\ PowerOnRequest /\ entry.power # 1) =>
        (nInit = 0 /\ ~InitRunning)

\* C2 amended: an apply call made while the device is Active never runs the
\* reset/detect sequence before or during its frame; the sequence runs in such
\* a call only after the frame, as the recovery from an acknowledge poll that
\* read no low level (ack enabled), and then exactly once.
C2_ResetOnlyAsRecovery ==
    (InApply /\ PowerOnRequest /\ entry.power # 1) =>
        /\ initsAtFrame \in {NoValue, 0}
        /\ (nInit > 0 \/ InitRunning) => (ack = "missed" /\ rfa_en # 0 /\ nFrames = 1)
        /\ nInit <= 1
        /\ pc = "ret" => nInit = (IF ack = "missed" THEN 1 ELSE 0)

C2_Witness ==
    /\ AtReturn /\ PowerOnRequest /\ entry.power # 1
    /\ rfa_en # 0 /\ ack = "seen" /\ nInit = 0 /\ nFrames = 1

\* C3: an apply that takes the device from Blanked to Active transmits and
\* reports the brightness of the last frame sent before the device was
\* blanked, not the brightness requested in that call nor the 0 forced while
\* blanked; last_brightness still holds that value afterwards.
C3_RestoresLastBrightness ==
    (InApply /\ PowerOnRequest /\ entry.power = 1 /\ entry.sent # NoValue) =>
        /\ pc \in {"sv_build", "sv_start"} => brightness = entry.sent
        /\ nFrames > 0 =>
              /\ brightness = entry.sent
              /\ BitAnd(data, BRIGHTNESS_BMASK) = entry.sent
        /\ pc = "ret" =>
              /\ brightness = entry.sent
              /\ sent = entry.sent
              /\ last_brightness = entry.sent

C3_Witness ==
    /\ AtReturn /\ PowerOnRequest /\ entry.power = 1
    /\ entry.sent = 20 /\ ~entry.same
    /\ brightness = 20 /\ sent = 20

\* C4: from any state, an apply call with power off or with the suspend/blank
\* flag set drives the line low directly (one line event, no frame pulse, no
\* reset), sets the applied brightness to 0, leaves the device Blanked, leaves
\* last_brightness unchanged and returns 0.
C4_BlankCall ==
    (AtReturn /\ ~PowerOnRequest) =>
        /\ gpio_dir = "out" /\ gpio_val = 0
        /\ wire = << <<"low", 0>> >>
        /\ nPulses = 0 /\ nFrames = 0 /\ nInit = 0 /\ nInputs = 0
        /\ brightness = 0
        /\ power = 1
        /\ last_brightness = entry.last
        /\ retval = 0

C4_Witness ==
    /\ AtReturn /\ ~PowerOnRequest
    /\ props_power = FB_BLANK_UNBLANK /\ props_state = BL_CORE_SUSPENDED
    /\ entry.power # 1 /\ entry.last = 20
    /\ brightness = 0 /\ last_brightness = 20 /\ gpio_val = 0

\* C5 as stated: an acknowledge timeout in any apply call, whether the device
\* was Active or Blanked before it, has the reset/detect sequence invoked
\* exactly once during the call and ends with the line an output driven high.
C5_TimeoutResetsOnce ==
    (AtReturn /\ ack = "missed") =>
        (nInit = 1 /\ gpio_dir = "out" /\ gpio_val = 1)

\* C5 amended: an acknowledge timeout in an apply call has the reset/detect
\* sequence invoked exactly once after the frame, as the recovery; that is the
\* only run when the device was Active before the call and the second run
\* when it was Blanked (the first ran before the frame).  The line ends as an
\* output driven high.
C5_TimeoutRecoversOnce ==
    (AtReturn /\ ack = "missed") =>
        /\ nFrames = 1
        /\ nInit - initsAtFrame = 1
        /\ nInit = (IF entry.power = 1 THEN 2 ELSE 1)
        /\ SubSeq(wire, Len(wire) - 4, Len(wire) - 1) = ResetSequence
        /\ wire[Len(wire)] = <<"high", 0>>
        /\ gpio_dir = "out" /\ gpio_val = 1

C5_Witness ==
    /\ AtReturn /\ ack = "missed" /\ entry.power = 1
    /\ nInit = 2 /\ gpio_dir = "out" /\ gpio_val = 1


\* The handler in progress can take a step (the CPU runs it to its return).
Step ==
    \/ ProbeReturn
    \/ InitLow \/ InitDelay \/ InitDetect \/ InitIdle
    \/ UsRestore
    \/ SvBuild \/ SvStart \/ SvBitLow \/ SvBitHigh \/ SvGapLow \/ SvGapHigh
    \/ SvEos \/ SvInput \/ SvPoll \/ SvOut
    \/ Return

\* A measure of the work an apply call has left: the phases of the call in
\* the order the code runs them, and within a loop what the loop counts down.
Rank ==
    CASE pc = "idle" -> 0
      [] pc = "ret" -> 1
      [] pc = "sv_out" -> 2
      [] InitRunning /\ initCaller = "setvalue" ->
            3 + (CASE pc = "init_lo" -> 3 [] pc = "init_hi" -> 2
                   [] pc = "init_det" -> 1 [] pc = "init_idle" -> 0)
      [] pc = "sv_poll" -> 10 + max_ack_time
      [] pc = "sv_input" -> 1000000
      [] pc = "sv_eos" -> 1000001
      [] pc \in {"sv_bit_lo", "sv_bit_hi", "sv_gap_lo", "sv_gap_hi"} ->
            2000000 + 4 * max_bmask +
               (CASE pc = "sv_bit_lo" -> 3 [] pc = "sv_bit_hi" -> 2
                  [] pc = "sv_gap_lo" -> 1 [] pc = "sv_gap_hi" -> 0)
      [] pc = "sv_start" -> 3000000
      [] pc = "sv_build" -> 3000001
      [] pc = "us_restore" -> 3000002
      [] InitRunning /\ initCaller = "update" ->
            3000003 + (CASE pc = "init_lo" -> 3 [] pc = "init_hi" -> 2
                         [] pc = "init_det" -> 1 [] pc = "init_idle" -> 0)
      [] OTHER -> 0 - 1

\* C6: every apply call terminates whatever the line does: the call can always
\* take its next step, every step strictly lowers a natural-number measure of
\* the work left (so no step sequence of a call is infinite), the acknowledge
\* poll reads the input at most 258 times (900000 ns in slices of 3500 ns;
\* nReads counts the reads already made when the next one is due),
\* and the recovery reset does not re-enter the transmit routine (one frame
\* and at most two resets per call).
C6_ApplyTerminates ==
    /\ [](InApply =>
            /\ ENABLED Step
            /\ Rank \in Nat
            /\ pc = "sv_poll" =>
                  /\ nReads + 1 <= 258
                  /\ max_ack_time = RFA_MAX_ACK_TIME - nReads * RFA_ACK_WAIT
            /\ nFrames <= 1
            /\ nInit <= 2
            /\ (initCaller = "setvalue" /\ InitRunning) => nFrames = 1)
    /\ [][InApply => Rank' < Rank]_vars

C6_Witness ==
    /\ InApply /\ pc = "sv_poll" /\ nReads = 257 /\ max_ack_time = 500

\* C7: an acknowledge timeout is not a caller-visible error: apply returns 0,
\* as it does when the ack arrives; the device is Active after the call
\* (pchip->power is not the blanked value); and the brightness of the
\* unacknowledged frame is the applied and the remembered brightness.
C7_TimeoutIsNotAnError ==
    (AtReturn /\ PowerOnRequest) =>
        /\ retval = 0
        /\ ack = "missed" =>
              /\ power # 1
              /\ brightness = sent
              /\ last_brightness = sent
              /\ sent = BitAnd(data, BRIGHTNESS_BMASK)

C7_Witness ==
    /\ AtReturn /\ PowerOnRequest /\ ack = "missed" /\ usPath = "active"
    /\ retval = 0 /\ power # 1 /\ req = 20 /\ brightness = 20 /\ last_brightness = 20

\* C8 as stated: after attach the device is an uninitialised Blanked, so the
\* first apply call with power on runs the reset/detect sequence inside that
\* call before its frame.
C8_FirstApplyResets ==
    (InApply /\ entry.first /\ PowerOnRequest /\ nFrames > 0) => initsAtFrame >= 1

\* C8 amended: attach leaves the device Active (pchip->power = 0) with the
\* reset/detect sequence already run once by probe; the first apply call with
\* power on after attach therefore sends its frame without running the
\* reset/detect sequence before it.
C8_AttachLeavesActive ==
    /\ pc = "probe_ret" => (nInit = 1 /\ wire = ResetSequence /\ power # 1)
    /\ (pc = "idle" /\ fresh) => (power # 1 /\ gpio_dir = "out" /\ gpio_val = 1)
    /\ (InApply /\ entry.first) => entry.power # 1
    /\ (InApply /\ entry.first /\ PowerOnRequest /\ nFrames > 0) =>
          (initsAtFrame = 0 /\ wire[1] = <<"high", T_START_NS>>)

C8_Witness ==
    /\ AtReturn /\ entry.first /\ PowerOnRequest
    /\ nFrames = 1 /\ initsAtFrame = 0 /\ nInit = 0

\* C9: for every brightness b in 0..31, attach followed directly by
\* apply(true, b, false) with ack disabled transmits a frame whose data byte is
\* b and yields applied brightness b: the requested brightness, not the
\* zero-initialised last_brightness.
C9_FirstApplyUsesRequest ==
    (AtReturn /\ entry.first /\ PowerOnRequest /\ rfa_en = 0) =>
        /\ req \in 0..BRIGHTNESS_MAX
        /\ brightness = req
        /\ data % 256 = req
        /\ data \div 256 = ADDRESS_AL3050 \div 256
        /\ sent = req
        /\ nFrames = 1

C9_Witness ==
    /\ AtReturn /\ entry.first /\ PowerOnRequest /\ rfa_en = 0
    /\ req = 31 /\ entry.last = 0 /\ brightness = 31 /\ data % 256 = 31

\* The device exists: probe has stored its configuration.
Attached == pc \notin {"unbound", "failed"}

\* C10: when the configuration does not provide the acknowledge-enabled
\* property, ack_enabled is false for the lifetime of the device: no transmit
\* switches the line to input or polls it, and bit 7 of the frame is 0.
C10_AbsentPropertyDisablesAck ==
    (Attached /\ ~rfa_present) =>
        /\ rfa_en = 0
        /\ nInputs = 0 /\ nReads = 0 /\ gpio_dir # "in"
        /\ BitAnd(data, RFA_BMASK) = 0


(***************************************************************************)
(* The command frame on the wire                                           *)
(***************************************************************************)
\* The frame has been built by the running apply call
FrameBuilt == InApply /\ data # 0

\* C11: for a brightness b in 0..31 the 16-bit frame has high byte 0x58 (88)
\* and a low byte equal to b when the acknowledge request is disabled and to
\* b + 0x80 when it is enabled; bits 5 and 6 are 0 and nothing lies above
\* bit 15.
C11_FrameEncoding ==
    (FrameBuilt /\ brightness \in 0..31) =>
        /\ data \div 256 = 88
        /\ data % 256 = brightness + (IF rfa_en # 0 THEN 128 ELSE 0)
        /\ (data \div 32) % 4 = 0
        /\ data < 65536

C11_Witness ==
    /\ AtReturn /\ nFrames = 1 /\ usPath = "active"
    /\ rfa_en # 0 /\ req = 21 /\ data = 22528 + 128 + 21

\* The line events of the call from the start preamble of its frame on
FrameWire == SubSeq(wire, 4 * initsAtFrame + 1, Len(wire))

\* The position in FrameWire of the low phase of bit slot i (1 = first sent):
\* the preamble is event 1, and two more events sit between slots 8 and 9
SlotAt(i) == IF i <= 8 THEN 2 * i ELSE 2 * i + 2

\* The bit a slot's low phase stands for
SlotBit(i) == IF FrameWire[SlotAt(i)][2] = 4000 THEN 1 ELSE 0

RECURSIVE Decoded(_)
\* The value of the first i bit slots read most significant bit first
Decoded(i) == IF i = 0 THEN 0 ELSE 2 * Decoded(i - 1) + SlotBit(i)

\* The frame of the call is completely on the wire
FrameSent == InApply /\ nFrames = 1 /\ pc \in {"sv_input", "sv_out", "ret"}

\* C12: the pulse train decodes to the frame: there are exactly 16 bit
\* slots, each a low phase of 4000 ns (bit 1) or 9000 ns (bit 0) followed by
\* a high phase for the remainder of the 13000 ns slot, and read most
\* significant bit first they spell the 16-bit frame.
C12_PulseTrainDecodes ==
    FrameSent =>
        /\ Len(FrameWire) >= 36
        /\ nPulses = 36
        /\ \A i \in 1..16 :
              /\ FrameWire[SlotAt(i)][1] = "low"
              /\ FrameWire[SlotAt(i)][2] \in {4000, 9000}
              /\ FrameWire[SlotAt(i) + 1][1] = "high"
              /\ FrameWire[SlotAt(i)][2] + FrameWire[SlotAt(i) + 1][2] = 13000
        /\ Decoded(16) = data

C12_Witness ==
    /\ AtReturn /\ FrameSent /\ data = 22528 + 10
    /\ Decoded(16) = 22528 + 10
    /\ FrameWire[SlotAt(16)] = <<"low", 9000>>
    /\ FrameWire[SlotAt(15)] = <<"low", 4000>>

\* The positions in FrameWire where a 4000 ns low is directly followed by a
\* 4000 ns high: an end-of-sequence low with the start of the next byte
GapsAt ==
    {i \in 1..(Len(FrameWire) - 1) :
        FrameWire[i] = <<"low", 4000>> /\ FrameWire[i + 1] = <<"high", 4000>>}

\* The positions in FrameWire of the 4000 ns lows that are not the low phase
\* of a bit slot: the end-of-sequence conditions
EosAt ==
    {i \in 1..Len(FrameWire) :
        FrameWire[i] = <<"low", 4000>> /\ i \notin {SlotAt(j) : j \in 1..16}}

\* C13: for every frame value there is exactly one end-of-sequence plus
\* start gap (low 4000 ns, high 4000 ns), placed after the 8th bit slot and
\* before the 9th, and exactly one terminal end-of-sequence low of 4000 ns
\* directly after the 16th slot; no other bit slot is followed by a gap.
C13_OneGapOneEos ==
    FrameSent =>
        /\ \A i \in 1..16 :
              /\ FrameWire[SlotAt(i)][1] = "low"
              /\ FrameWire[SlotAt(i) + 1][1] = "high"
              /\ FrameWire[SlotAt(i)][2] + FrameWire[SlotAt(i) + 1][2] = 13000
        /\ GapsAt = {SlotAt(8) + 2}
        /\ EosAt = {SlotAt(8) + 2, SlotAt(16) + 2}

C13_Witness ==
    /\ AtReturn /\ FrameSent /\ rfa_en = 0
    /\ GapsAt = {18}
    /\ FrameWire[36] = <<"low", 4000>>
    /\ data = 22528 + 31


(***************************************************************************)
(* Interrupts                                                              *)
(***************************************************************************)
\* C14: the whole transmit, from the start preamble to the final drive-high,
\* runs with interrupts disabled on every path, the acknowledge-timeout path
\* included: the save/restore pair of the recovery reset nests inside the
\* transmit's pair and does not turn interrupts back on.  The state found on
\* entry (enabled) is put back by the returning step and by no other step.
C14_TransmitIrqsOff ==
    /\ []((InApply /\ nFrames > 0 /\ pc # "ret") => ~irq_on)
    /\ []((InApply /\ pc = "sv_start") => irq_on)
    /\ [](AtReturn => irq_on)
    /\ [][(nFrames' > 0 /\ ~irq_on /\ irq_on') =>
              (pc = "sv_out" /\ pc' = "ret")]_vars

C14_Witness ==
    /\ InApply /\ pc = "sv_out" /\ ack = "missed"
    /\ nInit = initsAtFrame + 1 /\ ~irq_on /\ flags_sv


(***************************************************************************)
(* Brightness outside 0..31                                                *)
(***************************************************************************)
\* C15 as stated: the stored brightness, both pchip->last_brightness and the
\* applied brightness the host reads back from bl->props.brightness between
\* calls, lies in 0..31 in every reachable state, whatever brightness the
\* calls requested.
C15_StoredBrightnessInRange ==
    /\ last_brightness \in 0..31
    /\ pc \in {"ret", "idle"} => brightness \in 0..31

\* C16: for a requested brightness b outside 0..31 the frame built and sent
\* is the frame of the in-range value b & 0x1F (b modulo 32) with the same
\* acknowledge setting: high byte 0x58, low byte b mod 32 plus 0x80 when the
\* acknowledge request is enabled.
C16_OutOfRangeTruncated ==
    (FrameBuilt /\ usPath = "active" /\ req \notin 0..31) =>
        /\ data = 22528 + (req % 32) + (IF rfa_en # 0 THEN 128 ELSE 0)
        /\ FrameSent =>
              /\ Decoded(16) = 22528 + (req % 32) + (IF rfa_en # 0 THEN 128 ELSE 0)
              /\ sent = req % 32

C16_Witness ==
    /\ AtReturn /\ FrameSent /\ usPath = "active"
    /\ req = 128 + 1 /\ rfa_en = 0
    /\ Decoded(16) = 22528 + 1


(***************************************************************************)
(* The reset/detect sequence                                               *)
(***************************************************************************)
\* The number of line events the running handler recorded before the
\* current al3050_init started: none in probe and in update_status, the
\* frame and the switch to input in the recovery of set_value
InitBase ==
    IF initCaller = "setvalue" THEN 4 * initsAtFrame + 36 + 1 ELSE 0

\* The number of line events the running al3050_init has driven
InitDone ==
    CASE pc = "init_lo" -> 0
      [] pc = "init_hi" -> 1
      [] pc = "init_det" -> 2
      [] pc = "init_idle" -> 3
      [] OTHER -> 4

\* al3050_init has just returned to its caller
JustReset ==
    \/ pc \in {"probe_ret", "us_restore"}
    \/ pc = "sv_out" /\ ack = "missed"

\* C17: every run of the reset/detect sequence drives the line as an output
\* in the order low 4 ms, high 100 us, low 450 us, high; it produces no
\* other line event, reads no input, and leaves the line driven high.
C17_ResetSequenceShape ==
    /\ (InitRunning \/ JustReset) =>
          /\ Len(wire) = InitBase + InitDone
          /\ SubSeq(wire, InitBase + 1, InitBase + InitDone)
                = SubSeq(<< <<"low", 4000000>>, <<"high", 100000>>,
                            <<"low", 450000>>, <<"high", 0>> >>, 1, InitDone)
          /\ nReads = 0
          /\ nInputs = (IF initCaller = "setvalue" THEN 1 ELSE 0)
          /\ InitDone > 0 => gpio_dir = "out"
    /\ JustReset => gpio_dir = "out" /\ gpio_val = 1

C17_Witness ==
    /\ InApply /\ pc = "sv_out" /\ ack = "missed" /\ initsAtFrame = 1
    /\ Len(wire) = 45
    /\ SubSeq(wire, 42, 45) = ResetSequence


(***************************************************************************)
(* The acknowledge poll                                                    *)
(***************************************************************************)
\* C18: with the acknowledge request enabled the recovery reset runs exactly
\* when no low level was read during the poll window.  A low read on any
\* poll, the last one included, ends the loop with a strictly positive
\* remaining budget, 900000 ns less 3500 ns for each earlier poll, which is
\* the time the engine then waits (line 144) before it drives the line high
\* without a reset; a window without a low read ends after 258 reads with
\* the reset.
C18_ResetIffNoAck ==
    /\ [][(pc = "sv_poll" /\ pc' # "sv_poll") =>
              IF ack' = "seen"
                 THEN /\ pc' = "sv_out"
                      /\ max_ack_time = 900000 - 3500 * nReads
                      /\ max_ack_time > 0
                 ELSE /\ ack' = "missed"
                      /\ pc' = "init_lo"
                      /\ nReads + 1 = 258
                      /\ max_ack_time - 3500 <= 0]_vars
    /\ []((InApply /\ pc = "sv_out" /\ rfa_en # 0) =>
              /\ ack \in {"seen", "missed"}
              /\ ack = "missed" <=> nInit = initsAtFrame + 1
              /\ ack = "seen" <=> nInit = initsAtFrame)
    /\ []((AtReturn /\ nFrames = 1) =>
              /\ gpio_dir = "out" /\ gpio_val = 1
              /\ rfa_en # 0 => (ack = "missed" <=> nInit = initsAtFrame + 1))

C18_Witness ==
    /\ InApply /\ pc = "sv_out" /\ rfa_en # 0
    /\ ack = "seen" /\ nInit = initsAtFrame /\ gpio_dir = "in"


(***************************************************************************)
(* The line between calls                                                  *)
(***************************************************************************)
\* The attach-time reset has finished: the probe thread is past al3050_init
BringUpDone == ~probe_pending /\ call # "probe"

\* C19 as stated: between calls, once probe has brought the device up, the
\* line is an output: driven high exactly when the device is Active
\* (pchip->power # 1) and low exactly when it is Blanked; it is never left
\* in input mode.
C19_LineFollowsPower ==
    (pc \in {"idle", "ret"} /\ BringUpDone) =>
        /\ gpio_dir = "out"
        /\ gpio_val = 1 <=> power # 1
        /\ gpio_val = 0 <=> power = 1


(***************************************************************************)
(* Attach and the first calls                                              *)
(***************************************************************************)
\* C20 as stated: the attach-time reset completes before any apply call
\* drives the line: in no interleaving of probe with a host-triggered apply
\* does an apply put a line event, let alone a frame, on the wire before the
\* bring-up reset has finished.
C20_ResetBeforeAnyApply ==
    (InApply /\ (Len(wire) > 0 \/ nFrames > 0)) => BringUpDone

==========================================================================
